---- MODULE Spec2Model ----
(***************************************************************************)
(* agent-triage: the resilient LLM invocation layer (tenacity retry inside *)
(* a pybreaker circuit breaker, one breaker per backend, ChatGPT primary   *)
(* and Copilot fallback behind the LLMClient facade) and the per-project   *)
(* fold-and-commit loop of main.py that consumes it.                       *)
(*                                                                         *)
(* Time is a discrete clock `now`; a call reads the clock once.  tenacity  *)
(* and pybreaker are third-party libraries: their behaviour is modelled as *)
(* configured at the call sites of llm_client.py (stop_after_attempt,      *)
(* retry_if_not_exception_type, reraise=True; fail_max, reset_timeout and  *)
(* the default throw_new_error_on_trip), which tests/test_llm_client.py    *)
(* pins down for the call that trips the breaker.                          *)
(***************************************************************************)
EXTENDS Integers, Sequences, FiniteSets, TLC

\* ------------------------------------------------------------------------
\* Settings (config.py) and model bounds
\* ------------------------------------------------------------------------
FailMax == 2        \* Settings.CB_FAIL_MAX
ResetTimeout == 2   \* Settings.CB_RESET_TIMEOUT, in clock ticks
MaxAttempts == 2    \* Settings.CB_RETRY_ATTEMPTS
MaxNow == 3         \* the clock stops advancing here
MaxMails == 2       \* unread mails fetched by one run
MaxFaults == 1      \* S3, IMAP and SMTP calls that raise in one run
MaxWait == 5        \* CB_RETRY_WAIT_MIN and CB_RETRY_WAIT_MAX, in seconds
MaxWaits == 4       \* waits of one retry sequence that are followed

Backends == {"chatgpt", "copilot"}

\* opened_at of a breaker that never opened (None in pybreaker's storage)
NoTime == 0 - 1

\* ------------------------------------------------------------------------
\* One underlying attempt and its outcome
\* ------------------------------------------------------------------------
\* _http_call: 2xx with content, 2xx with empty content, IOError (5xx,
\* timeout, connectivity), ValueError (4xx).
ChatGPTOutcomes == {"ok", "ok_empty", "transient", "permanent"}

\* _run_copilot_session: a non-empty response, or an exception (an empty or
\* absent response raises RuntimeError; a timeout raises too).
CopilotOutcomes == {"ok", "transient"}

Outcomes(b) == IF b = "chatgpt" THEN ChatGPTOutcomes ELSE CopilotOutcomes

IsOk(o) == o \in {"ok", "ok_empty"}

\* retry=retry_if_not_exception_type(...): ChatGPT excludes ValueError (and
\* CircuitBreakerError), Copilot only CircuitBreakerError.
RetryableAll(b, o) == ~IsOk(o)

Retryable(b, o) ==
    /\ ~IsOk(o)
    /\ IF b = "chatgpt" THEN o # "permanent" ELSE TRUE

\* The scripts of attempt outcomes the environment may play to one call: the
\* service fails transiently for the first k attempts and gives the same
\* answer to every attempt after them.
Scripts(b) ==
    { [i \in 1..MaxAttempts |-> IF i <= k THEN "transient" ELSE o] :
        k \in 0..(MaxAttempts - 1), o \in Outcomes(b) }

\* @retry(stop=stop_after_attempt(CB_RETRY_ATTEMPTS), retry=..., reraise=True)
\* around one attempt: attempt i is made; a returned value or a non-retryable
\* exception ends the sequence, and so does attempt number MaxAttempts.
RECURSIVE RetryFrom(_, _, _)
RetryFrom(b, outs, i) ==
    IF Retryable(b, outs[i]) /\ i < MaxAttempts
    THEN RetryFrom(b, outs, i + 1)
    ELSE [attempts |-> i, result |-> outs[i]]

CallWithRetry(b, outs) == RetryFrom(b, outs, 1)

\* ------------------------------------------------------------------------
\* pybreaker.CircuitBreaker(fail_max, reset_timeout)
\* ------------------------------------------------------------------------
NewBreaker == [state |-> "closed", fail_counter |-> 0, opened_at |-> NoTime]

\* CircuitOpenState.before_call: the call is refused while the timeout has
\* not elapsed; a closed breaker admits every call.
AdmitsEarly(c, t) ==
    \/ c.state = "closed"
    \/ /\ c.state = "open"
       /\ ~(c.opened_at # NoTime /\ t + 1 < c.opened_at + ResetTimeout)

AdmitsAlways(c, t) == c.state \in {"closed", "open"}

Admits(c, t) ==
    \/ c.state = "closed"
    \/ /\ c.state = "open"
       /\ ~(c.opened_at # NoTime /\ t < c.opened_at + ResetTimeout)

\* _inc_counter: one failed call is one failure, whatever the retry layer
\* did inside it.
CountedUnlessPermanent(c, r) ==
    IF r.result = "permanent" THEN c.fail_counter ELSE c.fail_counter + 1

CountedPerAttempt(c, r) == c.fail_counter + r.attempts

Counted(c, r) == c.fail_counter + 1

\* on_failure: a failed probe re-opens; a closed breaker opens once the
\* counter has reached fail_max.
TripsLate(probe, n) == probe \/ n > FailMax

Trips(probe, n) == probe \/ n >= FailMax

\* CircuitBreaker.open(): opened_at is stamped with the current time.
OpenResetCounter(c, n, t) ==
    [state |-> "open", fail_counter |-> 0, opened_at |-> t]

OpenKeepStamp(c, n, t) ==
    [state |-> "open", fail_counter |-> n,
     opened_at |-> IF c.opened_at = NoTime THEN t ELSE c.opened_at]

Open(c, n, t) == [state |-> "open", fail_counter |-> n, opened_at |-> t]

\* CircuitBreaker.call(func) at clock t.  `transitions` is what the
\* _CBListener.state_change callback is told, in order; `tried` are the
\* outcomes of the attempts the retry layer really made.
RaisedAlwaysOpen(trip, err) == "circuit_open"

RaisedUnderlying(trip, err) == err

\* What self._cb.call raises for a wrapped call that failed: the call that
\* opens the circuit raises CircuitBreakerError in place of the error of the
\* wrapped function, any other failing call re-raises that error.
Raised(trip, err) == IF trip THEN "circuit_open" ELSE err

RejectedCounts(c) == [c EXCEPT !.fail_counter = @ + 1]

\* The breaker after before_call refused a call: CircuitBreakerError is
\* raised before the wrapped function and outside the error handling.
RejectedLeaves(c) == c

CbCall(b, c, t, outs) ==
    IF ~Admits(c, t)
    THEN [cb |-> RejectedLeaves(c), result |-> "circuit_open", attempts |-> 0,
          tried |-> << >>, admitted |-> FALSE, transitions |-> << >>]
    ELSE LET probe == c.state = "open"
             t1 == IF probe THEN << <<"open", "half_open">> >> ELSE << >>
             r == CallWithRetry(b, outs)
             tried == SubSeq(outs, 1, r.attempts)
         IN  IF IsOk(r.result)
             THEN \* _handle_success: reset the counter; half-open closes
                  [cb |-> [c EXCEPT !.state = "closed", !.fail_counter = 0],
                   result |-> r.result, attempts |-> r.attempts,
                   tried |-> tried, admitted |-> TRUE,
                   transitions |->
                       IF probe THEN Append(t1, <<"half_open", "closed">>)
                       ELSE t1]
             ELSE \* _handle_error: count the failure, then on_failure
                  LET n == Counted(c, r)
                      trip == Trips(probe, n)
                  IN  [cb |-> IF trip THEN Open(c, n, t)
                              ELSE [c EXCEPT !.fail_counter = n],
                       result |-> Raised(trip, r.result),
                       attempts |-> r.attempts,
                       tried |-> tried, admitted |-> TRUE,
                       transitions |->
                           IF probe THEN Append(t1, <<"half_open", "open">>)
                           ELSE IF trip THEN << <<"closed", "open">> >>
                           ELSE t1]

SharedBreaker(cbs, b) == cbs["chatgpt"]

\* self._cb: each backend builds its own CircuitBreaker in __init__ and
\* hands only that one to its calls.
OwnBreaker(cbs, b) == cbs[b]

BackendGenerateCounting(b, conf, c, t, outs) ==
    IF ~conf
    THEN [cb |-> [c EXCEPT !.fail_counter = @ + 1],
          result |-> "not_configured", attempts |-> 0,
          tried |-> << >>, admitted |-> FALSE, transitions |-> << >>]
    ELSE CbCall(b, c, t, outs)

\* ChatGPTBackend.generate / CopilotBackend.generate
BackendGenerate(b, conf, c, t, outs) ==
    IF ~conf
    THEN [cb |-> c, result |-> "not_configured", attempts |-> 0,
          tried |-> << >>, admitted |-> FALSE, transitions |-> << >>]
    ELSE CbCall(b, c, t, outs)

\* ------------------------------------------------------------------------
\* LLMClient.generate
\* ------------------------------------------------------------------------
NotCalled == [called |-> FALSE, result |-> "none", attempts |-> 0,
              tried |-> << >>, admitted |-> FALSE, transitions |-> << >>,
              pre |-> NewBreaker, at |-> 0]

Observed(r, c, t) == [called |-> TRUE, result |-> r.result,
                      attempts |-> r.attempts, tried |-> r.tried,
                      admitted |-> r.admitted,
                      transitions |-> r.transitions, pre |-> c, at |-> t]

\* `if self._copilot.is_configured:` after the primary did not return
SecondaryAlways(conf, primaryOk) == conf["copilot"]

SecondaryTried(conf, primaryOk) == ~primaryOk /\ conf["copilot"]

\* The fallback branch: Copilot's result, or the RuntimeError raised: lines
\* 322/327 report the backends unavailable, line 331 reports them
\* unconfigured.
FallbackOutcome(conf, secondaryOk) ==
    IF ~conf["copilot"] THEN "unconfigured"
    ELSE IF secondaryOk THEN "copilot"
    ELSE "unavailable"

PrimaryTriedUntilItFails(conf, cbs) ==
    conf["chatgpt"] /\ cbs["chatgpt"].fail_counter = 0

\* `if self._chatgpt.is_configured:` is all that decides whether the
\* primary is called: the facade remembers nothing of earlier calls.
PrimaryTried(conf, cbs) == conf["chatgpt"]

LLMClientGenerate(conf, cbs, t, outsP, outsS) ==
    LET p == BackendGenerate("chatgpt", TRUE, OwnBreaker(cbs, "chatgpt"), t,
                             outsP)
        primaryTried == PrimaryTried(conf, cbs)
        primaryOk == primaryTried /\ IsOk(p.result)
        s == BackendGenerate("copilot", TRUE, OwnBreaker(cbs, "copilot"), t,
                             outsS)
        secondaryTried == SecondaryTried(conf, primaryOk)
    IN  [cb |-> [b \in Backends |->
                    IF b = "chatgpt"
                    THEN (IF primaryTried THEN p.cb ELSE cbs[b])
                    ELSE (IF secondaryTried THEN s.cb ELSE cbs[b])],
         calls |-> [b \in Backends |->
                    IF b = "chatgpt"
                    THEN (IF primaryTried THEN Observed(p, cbs[b], t)
                          ELSE NotCalled)
                    ELSE (IF secondaryTried THEN Observed(s, cbs[b], t)
                          ELSE NotCalled)],
         outcome |-> IF primaryOk THEN "chatgpt"
                     ELSE FallbackOutcome(conf, IsOk(s.result)),
         text |-> IF primaryOk THEN p.result
                  ELSE IF secondaryTried /\ IsOk(s.result) THEN s.result
                  ELSE "error"]

NoFacade == [outcome |-> "none", text |-> "none"]

\* ------------------------------------------------------------------------
\* Mails, artifacts and storage (main.py, epic_generator.py, s3_client.py)
\* ------------------------------------------------------------------------
Projects == {"alpha", "zeta"}

\* An unread mail as far as the run looks at it: its project slug and
\* whether it carries a project-extension-rules attachment.  Its uid is its
\* position in the fetched list.
MailKinds == [project : Projects, rules : BOOLEAN]

Inboxes == UNION { [1..n -> MailKinds] : n \in 0..MaxMails }

\* An epic text is the sequence of what was merged into it: 0 for what an
\* earlier run left in S3, k for the requirements of mail k, -r for the
\* content of the rules file r.  NoEpic is
\* Python's None, Epic(<< >>) the empty string.
NoEpic == [present |-> FALSE, text |-> << >>]

Epic(txt) == [present |-> TRUE, text |-> txt]

\* `if accumulated_epic:` / `if existing_epic:`
Truthy(a) == a.present /\ a.text # << >>

\* Extension rules are named by where they come from: 0 is None, k the
\* attachment of mail k, StoredRules what an earlier run left in S3.
NoRules == 0

StoredRules == MaxMails + 1

\* The text of a stored extension-rules file, read as if it were an epic
RulesText(r) == Epic(<<0 - r>>)

\* The storage before the run: zeta has a bucket with an epic and rules
\* from an earlier run, alpha has nothing yet.  A bucket holds at most two
\* objects under epics/: the project's epic (a later write of the same
\* project overwrites it or carries a later date) and the rules file.
S3Init ==
    [buckets |-> {"zeta"},
     epic |-> [p \in Projects |-> IF p = "zeta" THEN Epic(<<0>>) ELSE NoEpic],
     rules |-> [p \in Projects |->
                  IF p = "zeta" THEN StoredRules ELSE NoRules]]

\* epic_key against "epics/project-extension-rules.md": the keys compare
\* as strings, "epics/zeta_<date>.md" after the rules file's key and
\* "epics/alpha_<date>.md" before it.
EpicKeyIsLast(p) == p = "zeta"

\* S3Client.read_latest_epic: the content of the greatest key under epics/
ReadLatestEpic(st, p) ==
    IF p \notin st.buckets THEN NoEpic
    ELSE IF st.rules[p] # NoRules
            /\ (~st.epic[p].present \/ ~EpicKeyIsLast(p))
         THEN RulesText(st.rules[p])
         ELSE st.epic[p]

\* S3Client.read_extension_rules
ReadExtensionRules(st, p) == st.rules[p]

\* S3Client.ensure_bucket
EnsureBucket(st, p) == [st EXCEPT !.buckets = @ \cup {p}]

\* S3Client.write_extension_rules
WriteExtensionRules(st, p, r) == [EnsureBucket(st, p) EXCEPT !.rules[p] = r]

\* S3Client.write_epic
WriteEpic(st, p, a) == [EnsureBucket(st, p) EXCEPT !.epic[p] = a]

\* emails_by_project: the project slugs in order of first appearance
RECURSIVE ProjectOrder(_, _, _)
ProjectOrder(ms, i, seen) ==
    IF i > Len(ms) THEN << >>
    ELSE IF ms[i].project \in seen THEN ProjectOrder(ms, i + 1, seen)
    ELSE <<ms[i].project>>
         \o ProjectOrder(ms, i + 1, seen \cup {ms[i].project})

\* emails_by_project[p]: the uids of the project's mails in arrival order
RECURSIVE UidsOf(_, _, _)
UidsOf(ms, p, i) ==
    IF i > Len(ms) THEN << >>
    ELSE IF ms[i].project = p THEN <<i>> \o UidsOf(ms, p, i + 1)
    ELSE UidsOf(ms, p, i + 1)

\* _resolve_extension_rules reads S3 only when neither the mail nor an
\* earlier mail of the group carries rules.
ReadsStoredRules(m, pending) == ~m.rules /\ pending = NoRules

ResolveStoredFirst(m, uid, st, pending) ==
    IF ReadExtensionRules(st, m.project) # NoRules
    THEN ReadExtensionRules(st, m.project)
    ELSE IF m.rules THEN uid
    ELSE pending

\* _resolve_extension_rules
ResolveExtensionRules(m, uid, st, pending) ==
    IF m.rules THEN uid
    ELSE IF pending # NoRules THEN pending
    ELSE ReadExtensionRules(st, m.project)

\* The extension_rules argument of generator.generate: the text of the
\* rules that were resolved, or None
RulesArg(r) == IF r = NoRules THEN NoEpic ELSE RulesText(r)

\* EpicGenerator.generate on a backend answer: the update prompt carries
\* the existing epic, the creation prompt does not; an empty completion is
\* returned as it is.
FoldText(existing, uid, answer) ==
    IF answer = "ok_empty" THEN Epic(<< >>)
    ELSE IF Truthy(existing) THEN Epic(Append(existing.text, uid))
    ELSE Epic(<<uid>>)

ExistingEpicReloaded(accumulated, st, p) == ReadLatestEpic(st, p)

\* `existing_epic=accumulated_epic`: the fold works on the local variable
\* seeded before the loop; the loop body reads no epic from storage.
ExistingEpic(accumulated, st, p) == accumulated

\* The first run of the agent; a later run records the project the run
\* before it was stopped in, the epic that run had committed for it and the
\* mails folded into that epic.
FirstRun == [n |-> 1, stopped |-> "none", committed |-> NoEpic, uids |-> {}]

\* No attempt was made on a backend yet.
NoAttempts == [p \in Projects |-> 0]

ToFoldDeduplicated(uids, r) == SelectSeq(uids, LAMBDA u : u \notin r.uids)

\* `for mail in mails`: every unread mail of the project is folded; nothing
\* tells whether a mail's content is in the baseline already.
ToFold(uids, r) == uids

NothingSucceededNever(done) == FALSE

\* `if not processed_uids: return 0`
NothingSucceeded(done) == done = << >>

ProcessedAlways(done, uid, ok) == Append(done, uid)

\* processed_uids after one mail: the uid is appended only when the
\* generator returned, never from the except branch.
Processed(done, uid, ok) == IF ok THEN Append(done, uid) ELSE done

AfterReplyBlocked(done, uid, sent) == Processed(done, uid, sent)

\* processed_uids once the reply was tried: the uid was appended before the
\* reply, and the inner except logs a failed send_reply and goes on.
AfterReply(done, uid, sent) == Processed(done, uid, TRUE)

RemainingRetried(queue, ok) == IF ok THEN Tail(queue) ELSE queue

RemainingUntilFailure(queue, ok) == IF ok THEN Tail(queue) ELSE << >>

\* `for mail in mails`: the try/except inside the loop swallows the failure
\* of a mail, so the loop goes on with the next one whatever happened.
Remaining(queue, ok) == Tail(queue)

AccumulatedOrNone(existing, out, ok) == IF ok THEN out ELSE NoEpic

\* accumulated_epic after one mail: assigned only when the generator
\* returned; the except branch leaves it as it was.
Accumulated(existing, out, ok) == IF ok THEN out ELSE existing

\* `if accumulated_epic:` guarding write_epic
WritesEpicAlways(a) == TRUE

WritesEpic(a) == Truthy(a)

Event(e, p, uid, a) == [ev |-> e, p |-> p, uid |-> uid, art |-> a]

\* ------------------------------------------------------------------------
\* The wait between attempts (tenacity wait_exponential)
\* ------------------------------------------------------------------------
Min(a, b) == IF a <= b THEN a ELSE b

Max(a, b) == IF a >= b THEN a ELSE b

WaitUnclamped(n, lo, hi) == 2 ^ (n - 1)

\* wait_exponential(min=lo, max=hi) after attempt n, with tenacity's
\* defaults multiplier=1 and exp_base=2:
\* max(max(0, min), min(multiplier * exp_base ** (n - 1), max))
Wait(n, lo, hi) == Max(Max(0, lo), Min(2 ^ (n - 1), hi))

\* No retry sequence is being timed.
NoBackoff == [min |-> 0, max |-> 0, waits |-> << >>]

\* ------------------------------------------------------------------------
\* One Copilot call, statement by statement (_run_copilot_session)
\* ------------------------------------------------------------------------
\* pc is the await the attempt stands before; client and session tell
\* whether this attempt's client is started and its session open; answer is
\* what send_and_wait returned; tried are the results of the attempts of
\* the call so far; leftSessions and leftClients count the sessions and
\* clients that ended attempts of this call left open.
NoSession ==
    [pc |-> "idle", attempt |-> 0, client |-> FALSE, session |-> FALSE,
     answer |-> "none", tried |-> << >>, leftSessions |-> 0,
     leftClients |-> 0]

\* What send_and_wait may return: an event with content, an event with
\* empty content, or None
Answers == {"ok", "empty", "absent"}

\* The value or exception of an attempt that got through to the end:
\* `if not response_text: raise RuntimeError(...)`
AttemptResult(answer) == IF answer = "ok" THEN "ok" ELSE "transient"

\* The script of a call whose attempts gave `tried`, as CallWithRetry reads
\* it: attempts that were not made repeat the last result.
AsScript(tried) ==
    [i \in 1..MaxAttempts |->
        IF i <= Len(tried) THEN tried[i] ELSE tried[Len(tried)]]

\* ------------------------------------------------------------------------
\* State
\* ------------------------------------------------------------------------
VARIABLES
    configured,   \* backend -> is_configured (settings, fixed for the process)
    cb,           \* backend -> breaker state
    now,          \* the clock
    last,         \* backend -> what the most recent step did on that backend
    facade,       \* the most recent step's LLMClient.generate, or NoFacade
    consecFails,  \* backend -> failed breaker-wrapped calls since a success
    served,       \* outcome of the step before, if it was LLMClient.generate
    sess,         \* the Copilot call in progress, statement by statement
    backoff,      \* wait_min, wait_max and the waits of a retry sequence
    mails,        \* the unread mails fetched by the run
    s3,           \* buckets, latest epic and extension rules per project
    pc,           \* where run() stands
    todo,         \* project slugs still to process
    proj,         \* the project being processed
    queue,        \* uids of the project still to fold
    acc,          \* accumulated_epic
    accRules,     \* accumulated_extension_rules
    done,         \* processed_uids
    ackq,         \* uids still to mark as seen
    events,       \* what the project being processed did to its collaborators
    faults,       \* collaborator calls that raised so far
    run,          \* which run this is, and what the stopped one left
    attempts,     \* attempts made on the backends per project, where counted
    summary       \* processed / errors of the run summary, projects that raised

llmVars == <<configured, cb, now, last, facade, consecFails, served, sess,
            backoff>>

runVars == <<mails, s3, pc, todo, proj, queue, acc, accRules, done, ackq,
             events, faults, summary, run, attempts>>

vars == <<llmVars, runVars>>

\* The streak of failed wrapped calls: a refused call was not made at all.
Streak(n, r) ==
    IF ~r.admitted THEN n
    ELSE IF IsOk(r.result) THEN 0
    ELSE n + 1

\* A process with fresh breakers (LLMClient.__init__)
LLMInit ==
    /\ configured \in [Backends -> BOOLEAN]
    /\ cb = [b \in Backends |-> NewBreaker]
    /\ now = 0
    /\ last = [b \in Backends |-> NotCalled]
    /\ facade = NoFacade
    /\ consecFails = [b \in Backends |-> 0]
    /\ served = "none"
    /\ sess = NoSession
    /\ backoff = NoBackoff

\* No run in progress: the layer is driven directly.
NoRun ==
    /\ mails = << >>
    /\ s3 = S3Init
    /\ pc = "idle"
    /\ todo = << >>
    /\ proj = "none"
    /\ queue = << >>
    /\ acc = NoEpic
    /\ accRules = NoRules
    /\ done = << >>
    /\ ackq = << >>
    /\ events = << >>
    /\ faults = 0
    /\ summary = [processed |-> 0, errors |-> 0, failed |-> {}]
    /\ run = FirstRun
    /\ attempts = NoAttempts

InitLLM == LLMInit /\ NoRun

\* backend.generate(...) called directly on one backend
Generate(b, outs) ==
    LET r == BackendGenerate(b, configured[b], OwnBreaker(cb, b), now, outs)
    IN  /\ cb' = [cb EXCEPT ![b] = r.cb]
        /\ last' = [x \in Backends |->
                      IF x = b THEN Observed(r, cb[b], now) ELSE NotCalled]
        /\ consecFails' = [consecFails EXCEPT ![b] = Streak(@, r)]
        /\ facade' = NoFacade
        /\ served' = "none"
        /\ UNCHANGED <<configured, now>>

ChatGPTGenerate ==
    /\ \E outs \in Scripts("chatgpt") : Generate("chatgpt", outs)
    /\ UNCHANGED <<sess, backoff, runVars>>

CopilotGenerate ==
    /\ \E outs \in Scripts("copilot") : Generate("copilot", outs)
    /\ UNCHANGED <<sess, backoff, runVars>>

\* Copilot's answers matter only to a call that reaches the fallback branch
\* with Copilot configured; any other call is played one fixed script.
FallbackScripts(outsP) ==
    LET p == BackendGenerate("chatgpt", configured["chatgpt"],
                             cb["chatgpt"], now, outsP)
    IN  IF SecondaryTried(configured, IsOk(p.result))
        THEN Scripts("copilot")
        ELSE {[i \in 1..MaxAttempts |-> "ok"]}

\* The effect of one LLMClient.generate on the layer's state
Facade(g) ==
    /\ cb' = g.cb
    /\ last' = g.calls
    /\ consecFails' = [b \in Backends |->
                         IF g.calls[b].called
                         THEN Streak(consecFails[b], g.calls[b])
                         ELSE consecFails[b]]
    /\ facade' = [outcome |-> g.outcome, text |-> g.text]
    /\ served' = facade.outcome
    /\ UNCHANGED <<configured, now, sess, backoff>>

\* LLMClient.generate(...) called on the facade
FacadeGenerate ==
    /\ \E outsP \in Scripts("chatgpt") : \E outsS \in FallbackScripts(outsP) :
          Facade(LLMClientGenerate(configured, cb, now, outsP, outsS))
    /\ UNCHANGED runVars

\* Time passes between two calls on the layer.
Tick ==
    /\ now < MaxNow
    /\ now' = now + 1
    /\ last' = [b \in Backends |-> NotCalled]
    /\ facade' = NoFacade
    /\ served' = "none"
    /\ UNCHANGED <<configured, cb, consecFails, sess, backoff, runVars>>

NextLLM ==
    \/ ChatGPTGenerate
    \/ CopilotGenerate
    \/ FacadeGenerate
    \/ Tick

SpecLLM == InitLLM /\ [][NextLLM]_vars

\* ------------------------------------------------------------------------
\* CopilotBackend.generate with _run_copilot_session taken await by await
\* ------------------------------------------------------------------------
\* A statement of the attempt other than its last
SessionStep(s) ==
    /\ sess' = s
    /\ last' = [b \in Backends |-> NotCalled]
    /\ facade' = NoFacade
    /\ served' = "none"
    /\ UNCHANGED <<configured, cb, now, consecFails, backoff, runVars>>

\* The attempt returns or raises with result r: tenacity starts another
\* attempt after an exception while attempts remain, else the call ends and
\* the breaker sees its result.  What the attempt did not close stays open.
AttemptEnds(r, sessionOpen, clientRunning) ==
    LET tried == Append(sess.tried, r)
        ls == sess.leftSessions + (IF sessionOpen THEN 1 ELSE 0)
        lc == sess.leftClients + (IF clientRunning THEN 1 ELSE 0)
    IN  IF Retryable("copilot", r) /\ sess.attempt < MaxAttempts
        THEN SessionStep([pc |-> "start", attempt |-> sess.attempt + 1,
                          client |-> FALSE, session |-> FALSE,
                          answer |-> "none", tried |-> tried,
                          leftSessions |-> ls, leftClients |-> lc])
        ELSE /\ Generate("copilot", AsScript(tried))
             /\ sess' = [pc |-> "idle", attempt |-> sess.attempt,
                         client |-> FALSE, session |-> FALSE,
                         answer |-> "none", tried |-> tried,
                         leftSessions |-> ls, leftClients |-> lc]
             /\ UNCHANGED <<backoff, runVars>>

\* CopilotBackend.generate is called and the breaker admits the call: the
\* first attempt begins.
SessionCall ==
    /\ sess.pc = "idle"
    /\ configured["copilot"]
    /\ Admits(cb["copilot"], now)
    /\ SessionStep([NoSession EXCEPT !.pc = "start", !.attempt = 1])

\* `await client.start()`
ClientStart ==
    /\ sess.pc = "start"
    /\ \/ SessionStep([sess EXCEPT !.pc = "create", !.client = TRUE])
       \/ AttemptEnds("transient", FALSE, FALSE)

\* `session = await client.create_session(...)`
CreateSession ==
    /\ sess.pc = "create"
    /\ \/ SessionStep([sess EXCEPT !.pc = "send", !.session = TRUE])
       \/ AttemptEnds("transient", sess.session, sess.client)

\* `response_event = await session.send_and_wait(..., timeout=120.0)`: an
\* event or None comes back, or the await raises (timeout, SDK error).
SendAndWait ==
    /\ sess.pc = "send"
    /\ \/ \E a \in Answers :
             SessionStep([sess EXCEPT !.pc = "destroy", !.answer = a])
       \/ AttemptEnds("transient", sess.session, sess.client)

\* `await session.destroy()`
Destroy ==
    /\ sess.pc = "destroy"
    /\ \/ SessionStep([sess EXCEPT !.pc = "stop", !.session = FALSE])
       \/ AttemptEnds("transient", sess.session, sess.client)

\* `await client.stop()` and the rest of the function: the response text is
\* returned, or RuntimeError is raised for an empty or absent one.
Stop ==
    /\ sess.pc = "stop"
    /\ \/ AttemptEnds(AttemptResult(sess.answer), sess.session, FALSE)
       \/ AttemptEnds("transient", sess.session, sess.client)

NextSession ==
    \/ SessionCall
    \/ ClientStart
    \/ CreateSession
    \/ SendAndWait
    \/ Destroy
    \/ Stop
    \/ Tick

SpecSession == InitLLM /\ [][NextSession]_vars

\* ------------------------------------------------------------------------
\* The waits of one retry sequence
\* ------------------------------------------------------------------------
\* Settings takes CB_RETRY_WAIT_MIN and CB_RETRY_WAIT_MAX from the
\* environment as they are given; nothing relates the two.
WaitInit ==
    /\ configured = [b \in Backends |-> TRUE]
    /\ cb = [b \in Backends |-> NewBreaker]
    /\ now = 0
    /\ last = [b \in Backends |-> NotCalled]
    /\ facade = NoFacade
    /\ consecFails = [b \in Backends |-> 0]
    /\ served = "none"
    /\ sess = NoSession
    /\ NoRun
    /\ \E lo \in 0..MaxWait, hi \in 0..MaxWait :
          backoff = [min |-> lo, max |-> hi, waits |-> << >>]

\* An attempt of _call_with_retry failed and another one follows: tenacity
\* sleeps wait(attempt_number) before it.
RetryWait ==
    /\ Len(backoff.waits) < MaxWaits
    /\ backoff' = [backoff EXCEPT
                     !.waits = Append(@, Wait(Len(@) + 1, backoff.min,
                                              backoff.max))]
    /\ UNCHANGED <<configured, cb, now, last, facade, consecFails, served,
                   sess, runVars>>

NextWait == RetryWait

SpecWait == WaitInit /\ [][NextWait]_vars

\* ------------------------------------------------------------------------
\* run() and _process_project_emails
\* ------------------------------------------------------------------------
\* run() after fetch_unread_jarvis_emails and the grouping by project slug
RunInit ==
    /\ mails \in Inboxes
    /\ s3 = S3Init
    /\ pc = "next"
    /\ todo = ProjectOrder(mails, 1, {})
    /\ proj = "none"
    /\ queue = << >>
    /\ acc = NoEpic
    /\ accRules = NoRules
    /\ done = << >>
    /\ ackq = << >>
    /\ events = << >>
    /\ faults = 0
    /\ summary = [processed |-> 0, errors |-> 0, failed |-> {}]
    /\ run = FirstRun
    /\ attempts = NoAttempts

Init == LLMInit /\ RunInit

Quiet ==
    /\ last' = [b \in Backends |-> NotCalled]
    /\ facade' = NoFacade
    /\ served' = "none"
    /\ UNCHANGED <<configured, cb, now, consecFails, sess, backoff>>

Log(e) == events' = Append(events, e)

FreshPerProject(c) == [b \in Backends |-> NewBreaker]

\* The breakers a project starts with: run() builds one EpicGenerator, hence
\* one LLMClient and one breaker per backend, before the loop over the
\* projects and hands it to every _process_project_emails call.
CarriedOver(c) == c

AfterFailureStop == "done"

\* Where run() stands after the `except Exception` around one project: in the
\* loop over emails_by_project, ready for the next project.
AfterFailure == "next"

FailedErrorsOne(n) == 1

\* `errors += len(project_mails)` for a project whose processing raised
FailedErrors(n) == n

\* `except Exception` in run(): the project's mails all count as errors and
\* the loop goes on with the next project.
ProjectFailed(p) ==
    /\ faults < MaxFaults
    /\ faults' = faults + 1
    /\ summary' = [summary EXCEPT
                      !.errors = @ + FailedErrors(Len(UidsOf(mails, p, 1))),
                      !.failed = @ \cup {p}]
    /\ pc' = AfterFailure

\* The project returned count: `processed += count; errors += len - count`.
ProjectReturned(p, count) ==
    /\ UNCHANGED faults
    /\ summary' = [processed |-> summary.processed + count,
                   failed |-> summary.failed,
                   errors |-> summary.errors
                              + (Len(UidsOf(mails, p, 1)) - count)]
    /\ pc' = "next"

\* _process_project_emails up to the loop: ensure_bucket, read_latest_epic.
\* `events` is the log of the project being processed and starts afresh.
StartProject ==
    /\ pc = "next"
    /\ todo # << >>
    /\ LET p == Head(todo)
       IN  /\ todo' = Tail(todo)
           /\ proj' = p
           /\ done' = << >>
           /\ ackq' = << >>
           /\ accRules' = NoRules
           /\ \/ \* ensure_bucket raises: nothing was touched
                 /\ events' = <<Event("project_failed", p, 0, NoEpic)>>
                 /\ ProjectFailed(p)
                 /\ UNCHANGED <<s3, acc, queue>>
              \/ \* the bucket is there, the read of the epic raises
                 /\ s3' = EnsureBucket(s3, p)
                 /\ events' = <<Event("project_failed", p, 0, NoEpic)>>
                 /\ ProjectFailed(p)
                 /\ UNCHANGED <<acc, queue>>
              \/ /\ s3' = EnsureBucket(s3, p)
                 /\ acc' = ReadLatestEpic(s3, p)
                 /\ queue' = ToFold(UidsOf(mails, p, 1), run)
                 /\ events' = <<Event("load", p, 0, ReadLatestEpic(s3, p))>>
                 /\ pc' = "fold"
                 /\ UNCHANGED <<summary, faults>>
    /\ cb' = CarriedOver(cb)
    /\ last' = [b \in Backends |-> NotCalled]
    /\ facade' = NoFacade
    /\ served' = "none"
    /\ UNCHANGED <<configured, now, consecFails, sess, backoff>>
    /\ UNCHANGED <<run, attempts, mails>>

\* One iteration of `for mail in mails` whose read of the stored extension
\* rules raises: the mail is skipped before the generator is called.
FoldReadFails ==
    /\ pc = "fold"
    /\ queue # << >>
    /\ ReadsStoredRules(mails[Head(queue)], accRules)
    /\ faults < MaxFaults
    /\ faults' = faults + 1
    /\ queue' = Remaining(queue, FALSE)
    /\ Log(Event("fold_failed", proj, Head(queue), acc))
    /\ Quiet
    /\ UNCHANGED <<run, attempts, mails, s3, pc, todo, proj, acc, accRules,
                   done, ackq, summary>>

\* One iteration of `for mail in mails`: resolve the rules, merge the mail
\* into the accumulated epic through the generator, reply to the sender.
FoldStep ==
    /\ pc = "fold"
    /\ queue # << >>
    /\ LET uid == Head(queue)
           m == mails[uid]
       IN  /\ accRules' = IF m.rules THEN uid ELSE accRules
           /\ \E outsP \in Scripts("chatgpt") :
              \E outsS \in FallbackScripts(outsP) :
                 LET g == LLMClientGenerate(configured, cb, now, outsP, outsS)
                     existing == ExistingEpic(acc, s3, proj)
                     used == Event("rules", proj, uid,
                                   RulesArg(ResolveExtensionRules(
                                                m, uid, s3, accRules)))
                     out == FoldText(existing, uid, g.text)
                 IN  /\ Facade(g)
                     /\ queue' = Remaining(queue, IsOk(g.text))
                     /\ IF IsOk(g.text)
                        THEN /\ acc' = Accumulated(acc, out, TRUE)
                             /\ \/ \* send_reply, when there is an epic to send
                                   /\ done' = AfterReply(done, uid, TRUE)
                                   /\ events' = events
                                        \o <<used,
                                             Event("fold_ok", proj, uid,
                                                   existing),
                                             Event("generated", proj, uid,
                                                   out)>>
                                        \o (IF Truthy(out)
                                            THEN <<Event("reply", proj, uid,
                                                         out)>>
                                            ELSE << >>)
                                   /\ UNCHANGED faults
                                \/ \* send_reply raises: logged, no more
                                   /\ Truthy(out)
                                   /\ faults < MaxFaults
                                   /\ faults' = faults + 1
                                   /\ done' = AfterReply(done, uid, FALSE)
                                   /\ events' = events
                                        \o <<used,
                                             Event("fold_ok", proj, uid,
                                                   existing),
                                             Event("generated", proj, uid,
                                                   out),
                                             Event("reply_failed", proj, uid,
                                                   out)>>
                        ELSE /\ events' = events
                                  \o <<used, Event("fold_failed", proj, uid,
                                                   existing)>>
                             /\ done' = Processed(done, uid, FALSE)
                             /\ acc' = Accumulated(acc, out, FALSE)
                             /\ UNCHANGED faults
    /\ UNCHANGED <<run, mails, s3, pc, todo, proj, ackq, summary>>

\* The iteration as run() makes it; the attempts are not counted.
Fold ==
    /\ FoldStep
    /\ UNCHANGED attempts

\* The iteration, counting the attempts it made on the two backends
FoldCounted ==
    /\ FoldStep
    /\ attempts' = [attempts EXCEPT
                      ![proj] = @ + last'["chatgpt"].attempts
                                  + last'["copilot"].attempts]

\* After the loop: return 0 when nothing succeeded, else write the rules
\* (if any were attached), write the epic (if it is not empty) once, and go
\* on to mark the mails.  Either write may raise.
Commit ==
    /\ pc = "fold"
    /\ queue = << >>
    /\ IF NothingSucceeded(done)
       THEN /\ Log(Event("no_emails_succeeded", proj, 0, acc))
            /\ ProjectReturned(proj, 0)
            /\ UNCHANGED <<s3, ackq>>
       ELSE LET st1 == IF accRules # NoRules
                       THEN WriteExtensionRules(s3, proj, accRules)
                       ELSE s3
                ev1 == IF accRules # NoRules
                       THEN <<Event("write_rules", proj, accRules, NoEpic)>>
                       ELSE << >>
            IN  \/ \* write_extension_rules raises
                   /\ accRules # NoRules
                   /\ Log(Event("project_failed", proj, 0, NoEpic))
                   /\ ProjectFailed(proj)
                   /\ UNCHANGED <<s3, ackq>>
                \/ \* write_epic raises
                   /\ WritesEpic(acc)
                   /\ s3' = st1
                   /\ events' = events \o ev1
                         \o <<Event("project_failed", proj, 0, NoEpic)>>
                   /\ ProjectFailed(proj)
                   /\ UNCHANGED ackq
                \/ /\ s3' = IF WritesEpic(acc) THEN WriteEpic(st1, proj, acc)
                            ELSE st1
                   /\ events' = events \o ev1
                         \o (IF WritesEpic(acc)
                             THEN <<Event("write_epic", proj, 0, acc)>>
                             ELSE << >>)
                   /\ ackq' = done
                   /\ pc' = "ack"
                   /\ UNCHANGED <<summary, faults>>
    /\ Quiet
    /\ UNCHANGED <<run, attempts, mails, todo, proj, queue, acc, accRules,
                   done>>

\* One iteration of `for uid in processed_uids: mark_as_seen(uid)`; the
\* IMAP store may raise, which ends the project.
MarkAsSeen ==
    /\ pc = "ack"
    /\ ackq # << >>
    /\ \/ /\ Log(Event("mark_as_seen", proj, Head(ackq), NoEpic))
          /\ ackq' = Tail(ackq)
          /\ UNCHANGED <<pc, summary, faults>>
       \/ /\ Log(Event("project_failed", proj, 0, NoEpic))
          /\ ProjectFailed(proj)
          /\ UNCHANGED ackq
    /\ Quiet
    /\ UNCHANGED <<run, attempts, mails, s3, todo, proj, queue, acc,
                   accRules, done>>

\* `return len(processed_uids)`
Return ==
    /\ pc = "ack"
    /\ ackq = << >>
    /\ Log(Event("returned", proj, 0, NoEpic))
    /\ ProjectReturned(proj, Len(done))
    /\ Quiet
    /\ UNCHANGED <<run, attempts, mails, s3, todo, proj, queue, acc,
                   accRules, done, ackq>>

\* The loop over the projects is over: the run is finished.
Finish ==
    /\ pc = "next"
    /\ todo = << >>
    /\ pc' = "done"
    /\ Quiet
    /\ UNCHANGED <<run, attempts, mails, s3, todo, proj, queue, acc,
                   accRules, done, ackq, events, faults,
                   summary>>

Next ==
    \/ StartProject
    \/ FoldReadFails
    \/ Fold
    \/ Commit
    \/ MarkAsSeen
    \/ Return
    \/ Finish

\* One run of the agent.  The whole run is taken to last less than one tick
\* of the clock the breakers are timed on.
Spec == Init /\ [][Next]_vars

\* ------------------------------------------------------------------------
\* A run during an outage of the backends
\* ------------------------------------------------------------------------
\* Enough mails for a breaker to open before the last one is folded, none
\* of them with an attachment
OutageInboxes == [1..(FailMax + 1) -> {m \in MailKinds : ~m.rules}]

\* run() with both backends configured; storage, SMTP and IMAP do not fail
\* (the fault budget is spent from the start), only the backends do.
OutageInit ==
    /\ LLMInit
    /\ configured = [b \in Backends |-> TRUE]
    /\ mails \in OutageInboxes
    /\ s3 = S3Init
    /\ pc = "next"
    /\ todo = ProjectOrder(mails, 1, {})
    /\ proj = "none"
    /\ queue = << >>
    /\ acc = NoEpic
    /\ accRules = NoRules
    /\ done = << >>
    /\ ackq = << >>
    /\ events = << >>
    /\ faults = MaxFaults
    /\ run = FirstRun
    /\ attempts = NoAttempts
    /\ summary = [processed |-> 0, errors |-> 0, failed |-> {}]

\* The reset timeout of an open circuit runs out between two folds (retry
\* waits and Copilot sessions make a fold last that long).
Pause ==
    /\ pc = "fold"
    /\ queue # << >>
    /\ \E b \in Backends : cb[b].state = "open"
    /\ now + ResetTimeout <= MaxNow
    /\ now' = now + ResetTimeout
    /\ last' = [b \in Backends |-> NotCalled]
    /\ facade' = NoFacade
    /\ served' = "none"
    /\ UNCHANGED <<configured, cb, consecFails, sess, backoff, runVars>>

NextOutage ==
    \/ StartProject
    \/ Fold
    \/ Commit
    \/ MarkAsSeen
    \/ Return
    \/ Finish
    \/ Pause

SpecOutage == OutageInit /\ [][NextOutage]_vars

\* ------------------------------------------------------------------------
\* A run stopped between commit and acknowledgment, and the run after it
\* ------------------------------------------------------------------------
\* run() with both backends configured, where storage, SMTP and IMAP do
\* not fail
RerunInit ==
    /\ LLMInit
    /\ configured = [b \in Backends |-> TRUE]
    /\ mails \in Inboxes
    /\ s3 = S3Init
    /\ pc = "next"
    /\ todo = ProjectOrder(mails, 1, {})
    /\ proj = "none"
    /\ queue = << >>
    /\ acc = NoEpic
    /\ accRules = NoRules
    /\ done = << >>
    /\ ackq = << >>
    /\ events = << >>
    /\ faults = MaxFaults
    /\ summary = [processed |-> 0, errors |-> 0, failed |-> {}]
    /\ run = FirstRun
    /\ attempts = NoAttempts

\* The process is stopped after write_epic of the run's first project and
\* before its first mark_as_seen, and cron starts the agent again: storage
\* is as the stopped run left it, every mail is still unread and is fetched
\* again (fetch_unread_jarvis_emails searches UNSEEN), and the new process
\* has new breakers.
StopBeforeAck ==
    /\ run.n = 1
    /\ pc = "ack"
    /\ ackq = done
    /\ Truthy(acc)
    /\ Len(todo) + 1 = Len(ProjectOrder(mails, 1, {}))
    /\ run' = [n |-> 2, stopped |-> proj, committed |-> acc,
               uids |-> {done[i] : i \in 1..Len(done)}]
    /\ pc' = "next"
    /\ todo' = ProjectOrder(mails, 1, {})
    /\ proj' = "none"
    /\ queue' = << >>
    /\ acc' = NoEpic
    /\ accRules' = NoRules
    /\ done' = << >>
    /\ ackq' = << >>
    /\ events' = << >>
    /\ summary' = [processed |-> 0, errors |-> 0, failed |-> {}]
    /\ cb' = [b \in Backends |-> NewBreaker]
    /\ consecFails' = [b \in Backends |-> 0]
    /\ last' = [b \in Backends |-> NotCalled]
    /\ facade' = NoFacade
    /\ served' = "none"
    /\ UNCHANGED <<configured, now, sess, backoff, mails, s3, faults,
                   attempts>>

\* The run with the attempts on the backends counted per project
NextAttempts ==
    \/ StartProject
    \/ FoldCounted
    \/ Commit
    \/ MarkAsSeen
    \/ Return
    \/ Finish

SpecAttempts == RerunInit /\ [][NextAttempts]_vars

NextRerun ==
    \/ StartProject
    \/ Fold
    \/ Commit
    \/ MarkAsSeen
    \/ Return
    \/ Finish
    \/ StopBeforeAck

SpecRerun == RerunInit /\ [][NextRerun]_vars

\* ------------------------------------------------------------------------
\* Properties of the invocation layer (checked under SpecLLM)
\* ------------------------------------------------------------------------
Rejected(b) ==
    /\ last[b].called
    /\ last[b].result = "circuit_open"
    /\ ~last[b].admitted
    /\ last[b].attempts = 0

WithinTimeout(b) ==
    /\ last[b].pre.state = "open"
    /\ last[b].at - last[b].pre.opened_at < ResetTimeout

\* C1: after exactly FailMax consecutive failed breaker-wrapped generate
\* calls on a backend its breaker is open with opened_at recorded (and it is
\* still closed after fewer), and the call that follows the tripping call,
\* made before the reset timeout has run out, raises the circuit-open error
\* with no underlying attempt.
C1_OpenAfterFailMax ==
    \A b \in Backends :
        /\ consecFails[b] >= FailMax =>
              cb[b].state = "open" /\ cb[b].opened_at # NoTime
        /\ consecFails[b] < FailMax => cb[b].state = "closed"
        /\ ( /\ last[b].called
             /\ last[b].pre.state = "open"
             /\ last[b].pre.fail_counter = FailMax
             /\ WithinTimeout(b) )
           => Rejected(b) /\ consecFails[b] = FailMax

C1_Witness ==
    \E b \in Backends :
        /\ consecFails[b] = FailMax
        /\ last[b].pre.state = "open"
        /\ last[b].pre.fail_counter = FailMax
        /\ Rejected(b)

\* C2: while a breaker is open and less than ResetTimeout has elapsed since
\* opened_at, every generate call on that backend raises the circuit-open
\* error and makes zero underlying attempts.
C2_OpenRejects ==
    \A b \in Backends :
        (last[b].called /\ WithinTimeout(b))
        => /\ Rejected(b)
           /\ last[b].tried = << >>

C2_Witness ==
    \E b \in Backends :
        /\ last[b].called
        /\ WithinTimeout(b)
        /\ last[b].at > last[b].pre.opened_at
        /\ Rejected(b)

Probed(b) ==
    /\ last[b].called
    /\ last[b].pre.state = "open"
    /\ last[b].at - last[b].pre.opened_at >= ResetTimeout

\* The retry sequence of the last call ended in a returned value.
Succeeded(b) == last[b].attempts >= 1 /\ IsOk(last[b].tried[last[b].attempts])

\* C3: once ResetTimeout has elapsed on an open breaker the next call is let
\* through as the half-open probe; a successful probe closes the breaker with
\* fail_counter 0, a failed probe re-opens it with a fresh opened_at, and no
\* call leaves the breaker half-open.
C3_ProbeDecides ==
    \A b \in Backends :
        /\ cb[b].state \in {"closed", "open"}
        /\ Probed(b) =>
              /\ last[b].admitted
              /\ last[b].attempts >= 1
              /\ last[b].transitions[1] = <<"open", "half_open">>
              /\ IF Succeeded(b)
                 THEN cb[b].state = "closed" /\ cb[b].fail_counter = 0
                 ELSE /\ cb[b].state = "open"
                      /\ cb[b].opened_at = last[b].at
                      /\ ~Admits(cb[b], now)

C3_Witness ==
    \E b \in Backends :
        /\ Probed(b)
        /\ ~Succeeded(b)
        /\ last[b].pre.opened_at < last[b].at
        /\ cb[b].state = "open"
        /\ cb[b].opened_at = last[b].at

LegalTransitions ==
    { <<"closed", "open">>, <<"open", "half_open">>,
      <<"half_open", "closed">>, <<"half_open", "open">> }

\* The listener's log leads from the state before the call to the state
\* after it, so no status change goes unreported.
Chained(b) ==
    LET tr == last[b].transitions
    IN  IF tr = << >> THEN cb[b].state = last[b].pre.state
        ELSE /\ tr[1][1] = last[b].pre.state
             /\ tr[Len(tr)][2] = cb[b].state
             /\ \A i \in 1..(Len(tr) - 1) : tr[i][2] = tr[i + 1][1]

\* C4: the only status changes of a breaker are closed->open (when
\* fail_counter reaches FailMax), open->half_open (only once ResetTimeout
\* has elapsed since opened_at), half_open->closed (probe success) and
\* half_open->open (probe failure).
C4_LegalTransitions ==
    \A b \in Backends :
        last[b].called =>
            /\ Chained(b)
            /\ \A i \in DOMAIN last[b].transitions :
                  LET tr == last[b].transitions[i]
                  IN  /\ tr \in LegalTransitions
                      /\ tr = <<"closed", "open">> =>
                            /\ cb[b].fail_counter = FailMax
                            /\ last[b].pre.fail_counter = FailMax - 1
                      /\ tr = <<"open", "half_open">> =>
                            last[b].at - last[b].pre.opened_at >= ResetTimeout
                      /\ tr = <<"half_open", "closed">> => Succeeded(b)
                      /\ tr = <<"half_open", "open">> => ~Succeeded(b)

C4_Witness ==
    \E b \in Backends :
        /\ last[b].called
        /\ last[b].transitions =
              << <<"open", "half_open">>, <<"half_open", "closed">> >>

\* C5: one breaker-wrapped call changes fail_counter by at most one failure
\* whatever the number of attempts inside it: an exhausted retry sequence is
\* exactly one failure, and a sequence that fails and then succeeds records
\* no failure.
C5_OneFailurePerCall ==
    \A b \in Backends :
        (last[b].called /\ last[b].admitted) =>
            IF Succeeded(b)
            THEN cb[b].fail_counter = 0
            ELSE cb[b].fail_counter = last[b].pre.fail_counter + 1

C5_Witness ==
    \E b \in Backends :
        /\ last[b].called
        /\ last[b].admitted
        /\ last[b].attempts = MaxAttempts
        /\ MaxAttempts > 1
        /\ ~Succeeded(b)
        /\ cb[b].fail_counter = last[b].pre.fail_counter + 1

\* C6: inside one generate call the retry layer makes one attempt when that
\* attempt fails with a permanent error, MaxAttempts attempts when every
\* attempt fails with a transient error, stops at the first attempt that
\* succeeds, and never makes more than MaxAttempts attempts.
C6_RetryAttempts ==
    \A b \in Backends :
        (last[b].called /\ last[b].admitted) =>
            LET tried == last[b].tried
                n == last[b].attempts
            IN  /\ n = Len(tried)
                /\ n \in 1..MaxAttempts
                /\ tried[1] = "permanent" => n = 1
                /\ (\A i \in 1..n : tried[i] = "transient") => n = MaxAttempts
                /\ \A i \in 1..n : IsOk(tried[i]) => i = n
                /\ \A i \in 1..(n - 1) : tried[i] = "transient"

C6_Witness ==
    /\ last["chatgpt"].called
    /\ last["chatgpt"].attempts = 1
    /\ last["chatgpt"].tried = << "permanent" >>
    /\ MaxAttempts > 1

PrimaryReturned == last["chatgpt"].called /\ IsOk(last["chatgpt"].result)

\* C7 as stated: LLMClient.generate invokes the secondary backend if and
\* only if the primary is unconfigured, raised, or refused the call.
C7_SecondaryIffPrimaryFailed ==
    facade.outcome # "none" =>
        (last["copilot"].called <=> ~PrimaryReturned)

\* C7 as amended: the secondary is invoked if and only if the primary did
\* not return a result and the secondary is configured; when the primary
\* returns, its result is returned and the secondary is not invoked.
C7_SecondaryIffPrimaryFailedAndConfigured ==
    facade.outcome # "none" =>
        /\ last["chatgpt"].called <=> configured["chatgpt"]
        /\ last["copilot"].called <=>
              (~PrimaryReturned /\ configured["copilot"])
        /\ PrimaryReturned =>
              /\ facade.outcome = "chatgpt"
              /\ facade.text = last["chatgpt"].result

C7_Witness ==
    /\ facade.outcome = "copilot"
    /\ last["chatgpt"].called
    /\ last["chatgpt"].result = "circuit_open"
    /\ last["copilot"].called

\* C8: LLMClient.generate fails as 'not configured' only when neither
\* backend is configured, and as 'all backends unavailable' only when the
\* secondary failed or is unconfigured; a configured primary that fails
\* with the secondary unconfigured is 'all backends unavailable'.
C8_NotConfiguredOnlyWhenNeither ==
    /\ facade.outcome = "unconfigured" =>
          ~configured["chatgpt"] /\ ~configured["copilot"]
    /\ facade.outcome = "unavailable" =>
          \/ ~configured["copilot"]
          \/ last["copilot"].called /\ ~IsOk(last["copilot"].result)
    /\ (configured["chatgpt"] /\ ~configured["copilot"]
        /\ facade.outcome \notin {"none", "chatgpt"})
       => facade.outcome = "unavailable"

\* C18: every LLMClient.generate call made with the primary configured
\* calls the primary, and makes at least one attempt on it whenever its
\* breaker admits the call, whatever backend served the calls before.
C18_PrimaryAlwaysFirst ==
    (facade # NoFacade /\ configured["chatgpt"]) =>
        /\ last["chatgpt"].called
        /\ last["chatgpt"].at = now
        /\ Admits(last["chatgpt"].pre, now) =>
              /\ last["chatgpt"].admitted
              /\ last["chatgpt"].attempts >= 1
        /\ last["copilot"].called => ~IsOk(last["chatgpt"].result)

\* The call before was served by the secondary and this one attempted the
\* primary again and was served by it.
C18_Witness ==
    /\ facade.outcome = "chatgpt"
    /\ served = "copilot"
    /\ last["chatgpt"].attempts >= 1
    /\ last["chatgpt"].pre.fail_counter >= 1

\* The call just made on b was attempted and failed
AttemptedAndFailed(b) ==
    /\ last[b].called
    /\ last[b].attempts >= 1
    /\ ~IsOk(last[b].result)

\* The outcome of the final attempt of the call just made on b
FinalAttempt(b) == last[b].tried[last[b].attempts]

\* The call just made on b opened the circuit (from closed or as a probe)
OpenedCircuit(b) ==
    /\ last[b].transitions # << >>
    /\ last[b].transitions[Len(last[b].transitions)][2] = "open"

\* C19 as stated: a call on a backend that was attempted and failed shows
\* its caller the error of its final attempt, and the circuit-open error is
\* shown only by calls that made no attempt.
C19_ErrorKindKept ==
    \A b \in Backends :
        /\ AttemptedAndFailed(b) => last[b].result = FinalAttempt(b)
        /\ (last[b].called /\ last[b].result = "circuit_open")
              => last[b].attempts = 0

\* C19 as amended: an attempted call that failed shows its caller the error
\* of its final attempt unless it opened the circuit (it brought the counter
\* to fail_max, or it was the half-open probe), in which case it shows the
\* circuit-open error; the circuit-open error is shown only by such a call
\* or by a call rejected without an attempt.
C19_ErrorKindKeptUnlessOpening ==
    \A b \in Backends :
        /\ (AttemptedAndFailed(b) /\ ~OpenedCircuit(b))
              => last[b].result = FinalAttempt(b)
        /\ (AttemptedAndFailed(b) /\ OpenedCircuit(b))
              => last[b].result = "circuit_open"
        /\ (last[b].called /\ last[b].result = "circuit_open")
              => \/ last[b].attempts = 0 /\ ~last[b].admitted
                 \/ AttemptedAndFailed(b) /\ OpenedCircuit(b)

\* A permanent error came out as it was after an earlier call had failed
C19_Witness ==
    /\ AttemptedAndFailed("chatgpt")
    /\ ~OpenedCircuit("chatgpt")
    /\ last["chatgpt"].result = "permanent"
    /\ last["chatgpt"].attempts >= 2

\* C20: a call made on a closed circuit that fails with the counter one
\* short of fail_max makes its attempts and raises the circuit-breaker
\* error; a failing call made with the counter lower than that raises the
\* error of its final attempt.
C20_TrippingCallRaisesBreakerError ==
    \A b \in Backends :
        (/\ last[b].called
         /\ last[b].admitted
         /\ last[b].pre.state = "closed"
         /\ \A i \in 1..last[b].attempts : ~IsOk(last[b].tried[i])) =>
            /\ last[b].attempts >= 1
            /\ IF last[b].pre.fail_counter + 1 >= FailMax
               THEN /\ last[b].result = "circuit_open"
                    /\ cb[b].state = "open"
               ELSE /\ last[b].result = FinalAttempt(b)
                    /\ last[b].result # "circuit_open"
                    /\ cb[b].state = "closed"

\* The call after a failed one trips the breaker after retrying
C20_Witness ==
    /\ last["chatgpt"].called
    /\ last["chatgpt"].pre.state = "closed"
    /\ last["chatgpt"].pre.fail_counter >= 1
    /\ last["chatgpt"].attempts = MaxAttempts
    /\ last["chatgpt"].result = "circuit_open"
    /\ cb["chatgpt"].state = "open"

\* C21: a call whose final attempt fails with a permanent error is not
\* retried after it and counts as one failure of the breaker, like any
\* other failed call: the counter grows by one, and the circuit opens when
\* that brings it to fail_max.
C21_PermanentCountsOnce ==
    \A b \in Backends :
        (/\ last[b].called
         /\ last[b].admitted
         /\ last[b].attempts >= 1
         /\ FinalAttempt(b) = "permanent") =>
            /\ \A i \in 1..(last[b].attempts - 1) :
                  last[b].tried[i] # "permanent"
            /\ cb[b].fail_counter = last[b].pre.fail_counter + 1
            /\ consecFails[b] = cb[b].fail_counter
            /\ cb[b].fail_counter >= FailMax => cb[b].state = "open"
            /\ cb[b].fail_counter < FailMax =>
                  cb[b].state = "closed" /\ last[b].result = "permanent"

\* The fail_max-th failed call in a row made one attempt, got a permanent
\* error and opened the circuit.
C21_Witness ==
    /\ last["chatgpt"].called
    /\ last["chatgpt"].pre.state = "closed"
    /\ last["chatgpt"].tried = <<"permanent">>
    /\ consecFails["chatgpt"] = FailMax
    /\ cb["chatgpt"].state = "open"

\* C22 as stated: a generate call on an unconfigured backend fails with the
\* configuration error without an attempt, and the breaker's counter has
\* grown by one.
C22_NotConfiguredCounted ==
    \A b \in Backends :
        (last[b].called /\ last[b].result = "not_configured") =>
            /\ last[b].attempts = 0
            /\ cb[b].fail_counter = last[b].pre.fail_counter + 1

\* C22 as amended: a generate call on an unconfigured backend fails with
\* the configuration error without an attempt and without reaching the
\* breaker, which is left as it was; only a call on an unconfigured backend
\* fails so.
C22_NotConfiguredBypassesBreaker ==
    \A b \in Backends :
        /\ (last[b].called /\ ~configured[b]) =>
              last[b].result = "not_configured"
        /\ (last[b].called /\ last[b].result = "not_configured") =>
              /\ ~configured[b]
              /\ last[b].attempts = 0
              /\ last[b].tried = << >>
              /\ ~last[b].admitted
              /\ last[b].transitions = << >>
              /\ cb[b] = last[b].pre
              /\ cb[b].fail_counter = 0

C22_Witness ==
    \E b \in Backends :
        /\ last[b].called
        /\ last[b].result = "not_configured"
        /\ cb[b] = NewBreaker
        /\ now > 0

\* C23: a call refused because the circuit is open leaves the breaker's
\* fail_counter, state and opened_at as they were before the call.
C23_RejectLeavesBreaker ==
    \A b \in Backends :
        (/\ last[b].called
         /\ last[b].result = "circuit_open"
         /\ last[b].attempts = 0) =>
            /\ last[b].pre.state = "open"
            /\ cb[b].fail_counter = last[b].pre.fail_counter
            /\ cb[b].state = last[b].pre.state
            /\ cb[b].opened_at = last[b].pre.opened_at
            /\ consecFails[b] = cb[b].fail_counter

\* A call refused some time after the circuit opened
C23_Witness ==
    \E b \in Backends :
        /\ last[b].called
        /\ last[b].result = "circuit_open"
        /\ last[b].attempts = 0
        /\ ~last[b].admitted
        /\ cb[b].opened_at < now
        /\ cb[b].fail_counter >= FailMax

\* ------------------------------------------------------------------------
\* Properties of one Copilot call (checked under SpecSession)
\* ------------------------------------------------------------------------
\* C25 as stated: whenever an attempt of a Copilot call has returned or
\* raised (the next attempt is about to start, or the call is over), no
\* session opened by an attempt of the call is still open.
C25_SessionTornDown ==
    sess.pc \in {"idle", "start"} => sess.leftSessions = 0

\* C33: the two breakers are independent.  In every step a backend that was
\* not called keeps its breaker (state, fail_counter, opened_at) whatever
\* happened on the other backend; a backend that was called starts from its
\* own breaker, and whether the call is refused depends on that breaker and
\* the clock alone, so an open primary circuit does not make the secondary
\* refuse.
C33_BreakersIndependent ==
    [][\A b \in Backends :
          /\ ~last'[b].called => cb'[b] = cb[b]
          /\ last'[b].called =>
                /\ last'[b].pre = cb[b]
                /\ configured[b] =>
                      (last'[b].admitted <=> Admits(cb[b], now))
                /\ ~last'[b].admitted => cb'[b] = cb[b]]_vars

\* One facade call in which the primary, its circuit open, refused and the
\* secondary, its circuit closed, was called and answered
C33_Witness ==
    /\ last["chatgpt"].called
    /\ last["chatgpt"].pre.state = "open"
    /\ ~last["chatgpt"].admitted
    /\ cb["chatgpt"].state = "open"
    /\ last["copilot"].called
    /\ last["copilot"].pre.state = "closed"
    /\ last["copilot"].admitted
    /\ IsOk(last["copilot"].result)
    /\ cb["copilot"] = NewBreaker

\* ------------------------------------------------------------------------
\* Properties of the fold-and-commit loop (checked under Spec)
\* ------------------------------------------------------------------------
\* The events of the project being processed, or just processed
Of(kind) == SelectSeq(events, LAMBDA e : e.ev = kind /\ e.p = proj)

\* The project has been left: its call returned or raised.
Left == pc \in {"next", "done"} /\ proj # "none"

ReturnedNormally ==
    /\ Left
    /\ Of("project_failed") = << >>

\* M, the number of the project's mails that folded successfully
Folded == Len(Of("fold_ok"))

\* C9 as stated, for a project whose processing met no storage or IMAP
\* error: write_epic is performed exactly once if at least one mail folded
\* successfully and not at all if none did, whatever the folds returned.
C9_OneCommitIffAnyFolded ==
    ReturnedNormally =>
        Len(Of("write_epic")) = IF Folded >= 1 THEN 1 ELSE 0

\* C10 as stated: once the project has been left, mark_as_seen has been
\* invoked exactly once for each successfully folded mail and for no other.
C10_AckExactlyFolded ==
    Left =>
        /\ Len(Of("mark_as_seen")) = Folded
        /\ \A i \in 1..Folded :
              Of("mark_as_seen")[i].uid = Of("fold_ok")[i].uid

IsPrefix(a, b) == Len(a) <= Len(b) /\ a = SubSeq(b, 1, Len(a))

UidsIn(evs) == [i \in 1..Len(evs) |-> evs[i].uid]

\* C10 as amended: mark_as_seen is invoked only for successfully folded
\* mails, at most once each and in their order; when the project's
\* processing returns without a storage or IMAP error it has been invoked
\* exactly once for each of the M folded mails, and a mail whose fold
\* failed is never marked.
C10_AckFoldedUnlessRaised ==
    LET marked == UidsIn(Of("mark_as_seen"))
        folded == UidsIn(Of("fold_ok"))
        failed == UidsIn(Of("fold_failed"))
    IN  /\ IsPrefix(marked, folded)
        /\ \A i \in 1..Len(marked) :
              \A j \in 1..Len(failed) : marked[i] # failed[j]
        /\ ReturnedNormally => Len(marked) = Len(folded)
        /\ pc = "ack" => marked \o ackq = folded

C10_Witness ==
    /\ ReturnedNormally
    /\ Folded >= 1
    /\ Of("fold_failed") # << >>
    /\ Len(Of("mark_as_seen")) = Folded

\* C11 as stated: whenever a mail of the project has been marked seen, a
\* write_epic of the project completed before the first mark.
C11_AckOnlyAfterCommit ==
    \A i \in 1..Len(events) :
        (events[i].ev = "mark_as_seen" /\ events[i].p = proj) =>
            \E j \in 1..(i - 1) :
                events[j].ev = "write_epic" /\ events[j].p = proj

\* The fold events of the project, successful or not, in log order
Folds == SelectSeq(events, LAMBDA e : e.ev \in {"fold_ok", "fold_failed"})

\* The accumulated artifact as the log tells it just before position i: the
\* output of the latest successful fold, or the loaded baseline.
RECURSIVE LatestBefore(_)
LatestBefore(i) ==
    IF i <= 1 THEN NoEpic
    ELSE IF events[i - 1].ev \in {"load", "generated"} THEN events[i - 1].art
    ELSE LatestBefore(i - 1)

\* C12: the mails of a project are folded in arrival order; the existing
\* artifact handed to each fold is the output of the latest successful fold
\* before it, or the loaded baseline when none succeeded; a failed fold
\* leaves the accumulated artifact as it was; the artifact written by
\* write_epic is the output of the last successful fold.
C12_FoldsChainInOrder ==
    /\ IsPrefix(UidsIn(Folds), UidsOf(mails, proj, 1))
    /\ \A i \in 1..Len(events) :
          /\ events[i].ev \in {"fold_ok", "fold_failed"} =>
                events[i].art = LatestBefore(i)
          /\ events[i].ev = "write_epic" =>
                /\ events[i].art = LatestBefore(i)
                /\ \E j \in 1..(i - 1) :
                      /\ events[j].ev = "generated"
                      /\ events[j].art = events[i].art
                      /\ events[j].uid = done[Len(done)]
    /\ pc \in {"fold", "ack"} => acc = LatestBefore(Len(events) + 1)

\* A failed fold between the baseline and a successful fold, then the commit
C12_Witness ==
    /\ Of("write_epic") # << >>
    /\ Len(Folds) >= 2
    /\ Folds[1].ev = "fold_failed"
    /\ Folds[2].ev = "fold_ok"
    /\ Truthy(Folds[2].art)
    /\ Folds[2].art = Of("load")[1].art
    /\ Of("write_epic")[1].art = Epic(Append(Folds[2].art.text, Folds[2].uid))

\* The position of the latest output of a fold before position i, or 0
RECURSIVE LastGenerated(_)
LastGenerated(i) ==
    IF i <= 1 THEN 0
    ELSE IF events[i - 1].ev = "generated" THEN i - 1
    ELSE LastGenerated(i - 1)

\* C26: the baseline of a project is read from storage exactly once per
\* run, as the first thing after the bucket is ensured and before any fold;
\* no fold reads it again: a fold that comes after a successful one is
\* handed that fold's output, held in memory, not what storage holds.
C26_BaselineLoadedOnce ==
    /\ Len(Of("load")) <= 1
    /\ Folds # << >> => Len(Of("load")) = 1
    /\ Of("load") # << >> => events[1].ev = "load"
    /\ \A i \in 1..Len(events) :
          (/\ events[i].ev \in {"fold_ok", "fold_failed"}
           /\ LastGenerated(i) > 0)
             => events[i].art = events[LastGenerated(i)].art

\* A second fold handed the first fold's output while storage still holds
\* the baseline that was loaded, which is something else
C26_Witness ==
    /\ Len(Folds) >= 2
    /\ Folds[1].ev = "fold_ok"
    /\ Truthy(Of("load")[1].art)
    /\ ReadLatestEpic(s3, proj) = Of("load")[1].art
    /\ Folds[2].art # Of("load")[1].art
    /\ Folds[2].art = Of("generated")[1].art

\* C27 as stated: once a project has returned with its epic written, what
\* read_latest_epic returns for it on the storage as the run left it (the
\* baseline of the next run) is the epic that was written.
C27_LatestIsWrittenEpic ==
    (ReturnedNormally /\ Of("write_epic") # << >>) =>
        ReadLatestEpic(s3, proj) = Of("write_epic")[1].art

\* C30 as stated: a fold is an update carrying the existing artifact if and
\* only if the artifact it is handed is non-empty, else a creation from the
\* mail alone; and once some fold of a project was handed a non-empty
\* artifact (the baseline or the accumulated one), every later fold of the
\* project that the generator answers is handed a non-empty artifact that
\* carries it.
C30_UpdateCarriesArtifact ==
    /\ \A i \in 1..Len(events) :
          (events[i].ev = "generated" /\ Truthy(events[i].art)) =>
              events[i].art.text =
                  IF Truthy(events[i - 1].art)
                  THEN Append(events[i - 1].art.text, events[i].uid)
                  ELSE <<events[i].uid>>
    /\ \A j \in 1..Len(Folds) :
          \A i \in 1..(j - 1) :
              (Truthy(Folds[i].art) /\ Folds[j].ev = "fold_ok") =>
                  /\ Truthy(Folds[j].art)
                  /\ IsPrefix(Folds[i].art.text, Folds[j].art.text)

\* The earlier mails of mail u's project that carry a rules attachment
EarlierWithRules(u) ==
    {v \in 1..(u - 1) :
        mails[v].project = mails[u].project /\ mails[v].rules}

Latest(S) == CHOOSE v \in S : \A w \in S : w <= v

\* The rules a past run left in storage for project q: a run writes a
\* project's rules only at that project's commit, after its folds.
StoredBefore(q) == ReadExtensionRules(S3Init, q)

\* C31: the rules handed to the generator for a mail are the mail's own
\* attachment if it has one, else the attachment of the most recent earlier
\* mail of the same project in this run, else the rules a past run stored,
\* else none.
C31_RulesByPriority ==
    \A i \in 1..Len(events) :
        events[i].ev = "rules" =>
            LET u == events[i].uid
            IN  events[i].art =
                   IF mails[u].rules THEN RulesText(u)
                   ELSE IF EarlierWithRules(u) # {}
                        THEN RulesText(Latest(EarlierWithRules(u)))
                   ELSE IF StoredBefore(events[i].p) # NoRules
                        THEN RulesText(StoredBefore(events[i].p))
                   ELSE NoEpic

\* A mail without attachment, in a project that has stored rules, folded
\* with the attachment of the mail before it
C31_Witness ==
    /\ Len(Of("rules")) = 2
    /\ StoredBefore(proj) # NoRules
    /\ ~mails[Of("rules")[2].uid].rules
    /\ mails[Of("rules")[1].uid].rules
    /\ Of("rules")[2].art = RulesText(Of("rules")[1].uid)
    /\ Of("generated") # << >>

InSeq(x, seq) == \E k \in 1..Len(seq) : seq[k] = x

C34_RulesOnlyFromFolded ==
    /\ \A i \in 1..Len(events) :
          events[i].ev = "write_rules" =>
              InSeq(events[i].uid, UidsIn(Of("fold_ok")))
    /\ \A i \in 1..Len(events) :
          \A v \in 1..Len(mails) :
              (/\ events[i].ev = "rules"
               /\ events[i + 1].ev = "fold_ok"
               /\ ~mails[events[i].uid].rules
               /\ events[i].art = RulesText(v))
                 => InSeq(v, UidsIn(Of("fold_ok")))

C13_EveryItemAttemptedOnce ==
    Of("load") # << >> =>
        /\ pc = "fold" => UidsIn(Folds) \o queue = UidsOf(mails, proj, 1)
        /\ pc # "fold" => UidsIn(Folds) = UidsOf(mails, proj, 1)

\* The first mail's fold failed and the second mail was folded all the same
C13_Witness ==
    /\ pc # "fold"
    /\ Len(Folds) = 2
    /\ Folds[1].ev = "fold_failed"
    /\ Folds[2].ev = "fold_ok"
    /\ facade = NoFacade

\* The projects of the run in processing order, and those handed to
\* _process_project_emails so far
RunOrder == ProjectOrder(mails, 1, {})

Started ==
    LET order == RunOrder
    IN  SubSeq(order, 1, Len(order) - Len(todo))

\* C14: a project whose processing raised does not stop the run: the
\* projects not yet started are always the tail of the run's projects, the
\* project in hand is the latest one started, and when the run is finished
\* every project of the run has been started.
C14_EveryPartitionStarted ==
    LET order == RunOrder
        started == SubSeq(order, 1, Len(order) - Len(todo))
    IN  /\ Len(todo) <= Len(order)
        /\ started \o todo = order
        /\ started # << >> =>
              /\ proj = started[Len(started)]
              /\ events # << >>
              /\ \A i \in 1..Len(events) : events[i].p = proj
        /\ summary.failed \subseteq {started[i] : i \in 1..Len(started)}
        /\ pc = "done" => started = order

\* The first project raised and the second was processed to its end
C14_Witness ==
    /\ pc = "done"
    /\ Len(RunOrder) = 2
    /\ RunOrder[1] \in summary.failed
    /\ proj = RunOrder[2]
    /\ Of("returned") # << >>

\* The number of mails of the projects in ps
RECURSIVE MailsOf(_)
MailsOf(ps) ==
    IF ps = << >> THEN 0
    ELSE Len(UidsOf(mails, Head(ps), 1)) + MailsOf(Tail(ps))

\* The projects whose processing is over
Handled ==
    LET started == Started
    IN  IF pc \in {"next", "done"} THEN started
        ELSE SubSeq(started, 1, Len(started) - 1)

\* C37: the summary counts every mail of every handled project once, as
\* processed or as an error, and a project that raised counts all of its
\* mails as errors; when the run is finished processed + errors is the
\* number of mails fetched.
C37_SummaryAccountsForAll ==
    LET handled == Handled
    IN  /\ summary.processed + summary.errors = MailsOf(handled)
        /\ summary.errors >=
              MailsOf(SelectSeq(handled, LAMBDA q : q \in summary.failed))
        /\ summary.processed <=
              MailsOf(SelectSeq(handled, LAMBDA q : q \notin summary.failed))
        /\ pc = "done" => summary.processed + summary.errors = Len(mails)

\* A finished run of two projects: one raised, the other was processed.
C37_Witness ==
    /\ pc = "done"
    /\ Len(RunOrder) = 2
    /\ summary.failed # {}
    /\ summary.processed >= 1
    /\ summary.errors >= 1
    /\ summary.processed + summary.errors = Len(mails)

\* What the project in hand did besides loading and folding
Effects ==
    SelectSeq(events, LAMBDA e :
        e.ev \in {"write_epic", "write_rules", "mark_as_seen", "reply"})

StoredFor(st, p) ==
    [bucket |-> p \in st.buckets, epic |-> st.epic[p], rules |-> st.rules[p]]

\* C15 as stated: a project left with no mail folded successfully has
\* written no epic and no rules, marked and replied to no mail, and its
\* storage is exactly what it was before the run.
C15_NoSuccessNoEffect ==
    (Left /\ Folded = 0) =>
        /\ Effects = << >>
        /\ StoredFor(s3, proj) = StoredFor(S3Init, proj)

\* C15 as amended: a project left with no mail folded successfully has
\* written no epic and no rules, marked and replied to no mail, and its
\* stored epic and rules are what they were before the run; the one change
\* to storage it may have made is the creation of its bucket by
\* ensure_bucket.
C15_NoSuccessOnlyBucket ==
    (Left /\ Folded = 0) =>
        /\ Effects = << >>
        /\ StoredFor(s3, proj).epic = StoredFor(S3Init, proj).epic
        /\ StoredFor(s3, proj).rules = StoredFor(S3Init, proj).rules
        /\ StoredFor(S3Init, proj).bucket => StoredFor(s3, proj).bucket

\* Every fold of a new project failed and the project returned 0; the
\* bucket made for it stays.
C15_Witness ==
    /\ Left
    /\ Folded = 0
    /\ Of("no_emails_succeeded") # << >>
    /\ Of("fold_failed") # << >>
    /\ \E i \in 1..Len(mails) : mails[i].project = proj /\ mails[i].rules
    /\ ~StoredFor(S3Init, proj).bucket
    /\ StoredFor(s3, proj).bucket

\* The puts of the project in hand under the notified prefix epics/: the
\* epic and the file epics/project-extension-rules.md
PutsUnderEpics ==
    SelectSeq(events, LAMBDA e : e.ev \in {"write_epic", "write_rules"})

\* C16 as stated, for a project that returned normally and whose folds all
\* returned a non-empty epic: with at least one mail merged there was
\* exactly one put under epics/, whether or not a mail carried rules.
C16_OnePutUnderEpics ==
    (/\ ReturnedNormally
     /\ Folded >= 1
     /\ \A i \in 1..Len(Of("generated")) : Truthy(Of("generated")[i].art))
        => Len(PutsUnderEpics) = 1

\* ------------------------------------------------------------------------
\* Properties of a run during an outage (checked under SpecOutage)
\* ------------------------------------------------------------------------
\* C17: the breakers live through the run: at every point of it, in
\* whatever project, each breaker's counter is the number of failed calls
\* made on the backend since its last success anywhere in the run, a closed
\* breaker has fewer than fail_max of them, and a fold made while the
\* primary's circuit is open and its reset timeout has not run out makes no
\* attempt on the primary and leaves its breaker as it was.
C17_BreakersSpanTheRun ==
    /\ \A b \in Backends :
          /\ cb[b].fail_counter = consecFails[b]
          /\ cb[b].state = "closed" => consecFails[b] < FailMax
    /\ (/\ pc \in {"fold", "ack", "next"}
        /\ last["chatgpt"].called
        /\ last["chatgpt"].pre.state = "open"
        /\ last["chatgpt"].at < last["chatgpt"].pre.opened_at + ResetTimeout)
          => /\ last["chatgpt"].attempts = 0
             /\ last["chatgpt"].tried = << >>
             /\ cb["chatgpt"] = last["chatgpt"].pre

\* The first project's only mail failed on the primary; in the second
\* project the primary's circuit opened on the failures of both projects
\* and the next mail of that project made no attempt on the primary.
C17_Witness ==
    /\ Len(RunOrder) = 2
    /\ proj = RunOrder[2]
    /\ Len(UidsOf(mails, RunOrder[1], 1)) < FailMax
    /\ Len(Folds) >= 2
    /\ last["chatgpt"].called
    /\ last["chatgpt"].pre.state = "open"
    /\ last["chatgpt"].attempts = 0
    /\ last["chatgpt"].pre.opened_at = now

\* C24: a breaker's counter never goes down except to 0, and it goes to 0
\* only in a step that made a successful call on that backend: a failed
\* call, a refused call, the passing of time and the start of another
\* project leave it or raise it; hence an open circuit always has at least
\* fail_max failed calls in a row behind it.
C24_CounterResetOnlyBySuccess ==
    /\ [][\A b \in Backends :
             cb'[b].fail_counter < cb[b].fail_counter =>
                /\ cb'[b].fail_counter = 0
                /\ cb'[b].state = "closed"
                /\ last'[b].called
                /\ last'[b].admitted
                /\ IsOk(last'[b].result)]_vars
    /\ [](\A b \in Backends :
             cb[b].state = "open" =>
                /\ consecFails[b] >= FailMax
                /\ cb[b].fail_counter >= FailMax)

\* The probe made after the reset timeout succeeded: the circuit closed
\* and the counter, at fail_max or more before the call, is 0.
C24_Witness ==
    /\ last["chatgpt"].called
    /\ last["chatgpt"].pre.state = "open"
    /\ last["chatgpt"].pre.fail_counter >= FailMax
    /\ IsOk(last["chatgpt"].result)
    /\ cb["chatgpt"].state = "closed"
    /\ cb["chatgpt"].fail_counter = 0
    /\ Started # << >>

\* ------------------------------------------------------------------------
\* Properties of a stopped run and the next one (checked under SpecRerun)
\* ------------------------------------------------------------------------
Count(x, seq) == Cardinality({i \in DOMAIN seq : seq[i] = x})

\* The run after the stopped one is processing the project it stopped in
Redoing == run.n = 2 /\ proj = run.stopped /\ Of("load") # << >>

\* C28: when a run is stopped after the commit of a project and before the
\* acknowledgment of its mails, nothing keeps the next run from folding them
\* again: every mail folded into the committed epic is queued again, in
\* order with the project's other mails; the baseline loaded is what
\* storage returns, the committed epic unless the rules file shadows it;
\* and a fold of such a mail that is handed an epic holding the mail's
\* content already returns an epic holding it twice (or the empty epic the
\* backend answered).
C28_StoppedRunIsFoldedAgain ==
    Redoing =>
        /\ pc = "fold" =>
              \A u \in run.uids : Count(u, UidsIn(Folds) \o queue) = 1
        /\ pc # "fold" =>
              \A u \in run.uids : Count(u, UidsIn(Folds)) = 1
        /\ EpicKeyIsLast(proj) => Of("load")[1].art = run.committed
        /\ (pc = "fold" /\ ReadExtensionRules(s3, proj) = NoRules)
              => Of("load")[1].art = run.committed
        /\ Of("load")[1].art # run.committed
              => Of("load")[1].art = RulesText(ReadExtensionRules(s3, proj))
        /\ \A i \in 1..Len(events) :
              (/\ events[i].ev = "generated"
               /\ events[i].uid \in run.uids
               /\ Truthy(events[i].art)
               /\ Count(events[i].uid, events[i - 1].art.text) = 1)
                 => Count(events[i].uid, events[i].art.text) = 2

\* The second run has committed an epic built on the one the stopped run
\* committed, in which a mail of the stopped run is merged twice.
C28_Witness ==
    /\ Redoing
    /\ Of("load")[1].art = run.committed
    /\ Of("write_epic") # << >>
    /\ \E u \in run.uids : Count(u, run.committed.text) = 1
                            /\ Count(u, Of("write_epic")[1].art.text) = 2
    /\ ReadLatestEpic(s3, proj) = Of("write_epic")[1].art

\* ------------------------------------------------------------------------
\* Properties of the retry waits (checked under SpecWait)
\* ------------------------------------------------------------------------
NonDecreasing(ws) == \A i \in 1..(Len(ws) - 1) : ws[i] <= ws[i + 1]

C35_AttemptsBounded ==
    /\ \A b \in Backends :
          /\ last[b].attempts <= MaxAttempts
          /\ Len(last[b].tried) = last[b].attempts
    /\ \A p \in Projects :
          attempts[p] <= 2 * Len(UidsOf(mails, p, 1)) * MaxAttempts
    /\ pc = "fold" =>
          attempts[proj] <= 2 * Len(Folds) * MaxAttempts

\* Two mails of one project, each folded with every attempt made on both
\* backends: the bound is met.
C35_Witness ==
    /\ proj \in Projects
    /\ Len(UidsOf(mails, proj, 1)) = 2
    /\ attempts[proj] = 2 * 2 * MaxAttempts
    /\ last["chatgpt"].attempts = MaxAttempts
    /\ last["copilot"].attempts = MaxAttempts

====
